---- MODULE Spec2Model ----
(***************************************************************************)
(* Model of the generic map utilities of maps-go (src/maps.go).            *)
(*                                                                         *)
(* A Go map is a reference: the heap maps every allocated reference to the *)
(* entries of the map it denotes, and Nil is the nil map.  `op` records    *)
(* the last call (its arguments, its result, and what the map written to   *)
(* held before).  A `range` over a map visits its keys in an order the     *)
(* runtime chooses: every function that ranges takes the order as an       *)
(* argument and the action draws it from all permutations of the key set.  *)
(*                                                                         *)
(* Spec   : the functions that allocate or write maps, applied to the maps *)
(*          of the heap (aliasing, frame conditions, panics on nil).       *)
(* SpecFn : the functions that only read their arguments, applied to the   *)
(*          argument maps drawn in args; their results are kept in op.     *)
(***************************************************************************)
EXTENDS Integers, Sequences, FiniteSets, TLC

VARIABLES heap, op, args

vars == <<heap, op, args>>

\* ---------------------------------------------------------------- bounds
MaxKey  == 2
MaxVal  == 1
MaxRefs == 3
MaxSrcs == 3

Keys   == 1..MaxKey
Values == 0..MaxVal

\* ------------------------------------------------------------- map values
Nil      == 0
Zero     == 0
EmptyMap == [k \in {} |-> Zero]

MapsOver(KS, VS) == UNION {[S -> VS] : S \in SUBSET KS}

InputMaps == MapsOver(Keys, Values)

Refs(h) == DOMAIN h

Args(h) == Refs(h) \cup {Nil}

\* reading through a reference: a nil map reads as a map without entries
Deref(h, r) == IF r = Nil THEN EmptyMap ELSE h[r]

Size(m) == Cardinality(DOMAIN m)

Put(m, k, v) == [x \in DOMAIN m \cup {k} |-> IF x = k THEN v ELSE m[x]]

Delete(m, k) == [x \in DOMAIN m \ {k} |-> m[x]]

\* the orders in which `range` may visit a key set
Orders(S) ==
  {o \in [1..Cardinality(S) -> S] : \A i, j \in DOMAIN o : i # j => o[i] # o[j]}

RECURSIVE OrderSeqs(_)
OrderSeqs(ms) ==
  IF ms = <<>> THEN {<<>>}
  ELSE {<<o>> \o rest : o \in Orders(DOMAIN Head(ms)), rest \in OrderSeqs(Tail(ms))}

\* the next unused reference (make)
Fresh(h) == Cardinality(Refs(h)) + 1

HasRoom(h) == Cardinality(Refs(h)) < MaxRefs

\* ---------------------------------------------------------------- resolvers
\* mutant: the overwriting resolver keeps the existing value
OverwriteResolverKeepsLeft(left, right) == left

OverwriteResolver(left, right) == right

NopResolver(left, right) == left

\* the resolver of TestMerge "Has Conflicts"
SumResolver(left, right) == left + right

\* a caller's resolver that is neither commutative nor associative
SubResolver(left, right) == left - right

Resolvers == {"Overwrite", "Nop", "Sum", "Sub"}

Resolve(fn, left, right) ==
  CASE fn = "Overwrite" -> OverwriteResolver(left, right)
    [] fn = "Nop"       -> NopResolver(left, right)
    [] fn = "Sum"       -> SumResolver(left, right)
    [] fn = "Sub"       -> SubResolver(left, right)

\* -------------------------------------------------------------------- Merge
\* mutant: the resolver is given the incoming value first
MergeEntrySwapped(fn, st, k, v) ==
  IF k \in DOMAIN st.merged
  THEN [merged |-> Put(st.merged, k, Resolve(fn, v, st.merged[k])),
        calls  |-> Append(st.calls, [key |-> k, left |-> v, right |-> st.merged[k]])]
  ELSE [merged |-> Put(st.merged, k, v), calls |-> st.calls]

\* mutant: the resolver is invoked for a new key too, against the zero value
MergeEntryAlwaysResolves(fn, st, k, v) ==
  LET existing == IF k \in DOMAIN st.merged THEN st.merged[k] ELSE Zero IN
  [merged |-> Put(st.merged, k, Resolve(fn, existing, v)),
   calls  |-> Append(st.calls, [key |-> k, left |-> existing, right |-> v])]

\* one iteration of the inner loop; calls logs the resolver's invocations
MergeEntry(fn, st, k, v) ==
  IF k \in DOMAIN st.merged
  THEN [merged |-> Put(st.merged, k, Resolve(fn, st.merged[k], v)),
        calls  |-> Append(st.calls, [key |-> k, left |-> st.merged[k], right |-> v])]
  ELSE [merged |-> Put(st.merged, k, v), calls |-> st.calls]

\* mutant: the inner loop ends at the first key it had to resolve
RECURSIVE MergeMapStopsAtCollision(_, _, _, _, _)
MergeMapStopsAtCollision(fn, st, m, order, i) ==
  IF i > Len(order) THEN st
  ELSE IF order[i] \in DOMAIN st.merged THEN MergeEntry(fn, st, order[i], m[order[i]])
  ELSE MergeMapStopsAtCollision(fn, MergeEntry(fn, st, order[i], m[order[i]]), m, order, i + 1)

RECURSIVE MergeMap(_, _, _, _, _)
MergeMap(fn, st, m, order, i) ==
  IF i > Len(order) THEN st
  ELSE MergeMap(fn, MergeEntry(fn, st, order[i], m[order[i]]), m, order, i + 1)

RECURSIVE MergeSrcs(_, _, _, _, _)
MergeSrcs(fn, st, src, orders, j) ==
  IF j > Len(src) THEN st
  ELSE MergeSrcs(fn, MergeMap(fn, st, src[j], orders[j], 1), src, orders, j + 1)

\* mutant: the outer loop starts at the second source
MergeSkipsFirst(fn, src, orders) ==
  MergeSrcs(fn, [merged |-> EmptyMap, calls |-> <<>>], src, orders, 2)

Merge(fn, src, orders) ==
  MergeSrcs(fn, [merged |-> EmptyMap, calls |-> <<>>], src, orders, 1)

\* mutant: Merge accumulates into its first source
MergeTargetFirstSource(h, srcs) ==
  IF Len(srcs) > 0 /\ srcs[1] # Nil THEN srcs[1] ELSE Fresh(h)

\* the map Merge writes to: a new one
MergeTarget(h, srcs) == Fresh(h)

\* ------------------------------------------------ GetOrDefault, GetOrPanic
GetOrDefault(m, key, defaultVal) ==
  IF key \in DOMAIN m THEN m[key] ELSE defaultVal

\* mutant: a stored zero value is taken for a missing key
GetOrPanicOnZero(m, key) ==
  IF key \in DOMAIN m /\ m[key] # Zero THEN [ret |-> m[key], panicked |-> FALSE]
  ELSE [ret |-> Zero, panicked |-> TRUE]

\* [ret, panicked]: nothing is returned when the key is missing
GetOrPanic(m, key) ==
  IF key \in DOMAIN m THEN [ret |-> m[key], panicked |-> FALSE]
  ELSE [ret |-> Zero, panicked |-> TRUE]

\* ------------------------------------------------- SetIfPresent, SetIfAbsent
\* a write through a nil map panics; the functions return [m, ret, panicked]
SetIfPresent(m, isNil, key, val) ==
  IF key \in DOMAIN m
  THEN [m |-> Put(m, key, val), ret |-> TRUE, panicked |-> isNil]
  ELSE [m |-> m, ret |-> FALSE, panicked |-> FALSE]

\* mutant: the value is set whether or not the key exists
SetIfAbsentAlwaysSets(m, isNil, key, val) ==
  IF isNil THEN [m |-> m, ret |-> FALSE, panicked |-> TRUE]
  ELSE [m |-> Put(m, key, val), ret |-> TRUE, panicked |-> FALSE]

SetIfAbsent(m, isNil, key, val) ==
  IF key \notin DOMAIN m
  THEN IF isNil THEN [m |-> m, ret |-> FALSE, panicked |-> TRUE]
       ELSE [m |-> Put(m, key, val), ret |-> TRUE, panicked |-> FALSE]
  ELSE [m |-> m, ret |-> FALSE, panicked |-> FALSE]

\* -------------------------------------------------------------------- Clear
\* mutant: nothing is deleted from the caller's map
ClearKeepsEntries(m, order, i) == m

RECURSIVE Clear(_, _, _)
Clear(m, order, i) ==
  IF i > Len(order) THEN m
  ELSE Clear(Delete(m, order[i]), order, i + 1)

\* -------------------------------------------------------------------- Clone
RECURSIVE CloneLoop(_, _, _, _)
CloneLoop(newMap, m, order, i) ==
  IF i > Len(order) THEN newMap
  ELSE CloneLoop(Put(newMap, order[i], m[order[i]]), m, order, i + 1)

Clone(m, order) == CloneLoop(EmptyMap, m, order, 1)

\* mutant: Clone returns its argument
CloneTargetSame(h, r) == r

\* the reference Clone returns: nil for nil, a new map otherwise
CloneTarget(h, r) == IF r = Nil THEN Nil ELSE Fresh(h)

\* ------------------------------------------------------------------- Filter
\* a Predicate is the set of the entries it accepts
Predicates == SUBSET (Keys \X Values)

Satisfies(fn, k, v) == <<k, v>> \in fn

\* mutant: every entry is added, the predicate is not consulted
RECURSIVE FilterLoopKeepsAll(_, _, _, _, _)
FilterLoopKeepsAll(res, m, fn, order, i) ==
  IF i > Len(order) THEN res
  ELSE FilterLoopKeepsAll(Put(res, order[i], m[order[i]]), m, fn, order, i + 1)

RECURSIVE FilterLoop(_, _, _, _, _)
FilterLoop(res, m, fn, order, i) ==
  IF i > Len(order) THEN res
  ELSE IF Satisfies(fn, order[i], m[order[i]])
       THEN FilterLoop(Put(res, order[i], m[order[i]]), m, fn, order, i + 1)
       ELSE FilterLoop(res, m, fn, order, i + 1)

Filter(m, fn, order) == FilterLoop(EmptyMap, m, fn, order, 1)

\* the reference Filter returns: a new map, for a nil m as well
FilterTarget(h, r) == Fresh(h)

\* ------------------------------------------------------- MapEntries, Invert
\* an EntryMapper gives an output entry <<k2, v2>> for every input entry
EntryMappers == [Keys \X Values -> Keys \X Values]

RECURSIVE MapEntriesLoop(_, _, _, _, _)
MapEntriesLoop(res, in, mapper, order, i) ==
  IF i > Len(order) THEN res
  ELSE LET kv == mapper[<<order[i], in[order[i]]>>]
       IN MapEntriesLoop(Put(res, kv[1], kv[2]), in, mapper, order, i + 1)

MapEntries(in, mapper, order) == MapEntriesLoop(EmptyMap, in, mapper, order, 1)

\* mutant: the entries are entered as they are, res[k] = v
RECURSIVE InvertLoopNotInverted(_, _, _, _)
InvertLoopNotInverted(res, m, order, i) ==
  IF i > Len(order) THEN res
  ELSE InvertLoopNotInverted(Put(res, order[i], m[order[i]]), m, order, i + 1)

\* res[v] = k: the entry visited last overwrites the others with its value
RECURSIVE InvertLoop(_, _, _, _)
InvertLoop(res, m, order, i) ==
  IF i > Len(order) THEN res
  ELSE InvertLoop(Put(res, m[order[i]], order[i]), m, order, i + 1)

Invert(m, order) == InvertLoop(EmptyMap, m, order, 1)

\* --------------------------------------------------------------------- Copy
\* mutant: a key dst already holds is not overwritten
RECURSIVE CopyKeepsExisting(_, _, _, _, _)
CopyKeepsExisting(src, dst, dstNil, order, i) ==
  IF i > Len(order) THEN [dst |-> dst, panicked |-> FALSE]
  ELSE IF dstNil THEN [dst |-> dst, panicked |-> TRUE]
  ELSE IF order[i] \in DOMAIN dst THEN CopyKeepsExisting(src, dst, dstNil, order, i + 1)
  ELSE CopyKeepsExisting(src, Put(dst, order[i], src[order[i]]), dstNil, order, i + 1)

\* mutant: a nil dst is left alone and Copy returns
CopyIntoNilIsNoOp(src, dst, dstNil, order, i) ==
  [dst |-> IF dstNil THEN dst ELSE [k \in DOMAIN dst \cup DOMAIN src |->
                                      IF k \in DOMAIN src THEN src[k] ELSE dst[k]],
   panicked |-> FALSE]

\* dst[k] = v panics on a nil dst, before anything is written
RECURSIVE Copy(_, _, _, _, _)
Copy(src, dst, dstNil, order, i) ==
  IF i > Len(order) THEN [dst |-> dst, panicked |-> FALSE]
  ELSE IF dstNil THEN [dst |-> dst, panicked |-> TRUE]
  ELSE Copy(src, Put(dst, order[i], src[order[i]]), dstNil, order, i + 1)

\* -------------------------------------------------------------------- Equal
RECURSIVE EqualLoop(_, _, _, _)
EqualLoop(m1, m2, order, i) ==
  IF i > Len(order) THEN TRUE
  ELSE IF order[i] \notin DOMAIN m2 \/ m1[order[i]] # m2[order[i]] THEN FALSE
  ELSE EqualLoop(m1, m2, order, i + 1)

\* mutant: the lengths are not compared
EqualNoLen(m1, m2, order) == EqualLoop(m1, m2, order, 1)

Equal(m1, m2, order) ==
  IF Size(m1) # Size(m2) THEN FALSE ELSE EqualLoop(m1, m2, order, 1)

\* --------------------------------------------------------------------- Diff
DiffValue        == 0
DiffMissingLeft  == 1
DiffMissingRight == 2

\* v, ok := m[key]: the zero value when the key is absent
Lookup(m, key) == IF key \in DOMAIN m THEN m[key] ELSE Zero

\* mutant: a missing key keeps the zero reason, DiffValue
DiffReasonOfNoMissing(ok, val, otherVal, missing) == DiffValue

\* the reason of one entry, as the two ifs of either loop assign it
DiffReasonOf(ok, val, otherVal, missing) ==
  LET r0 == DiffValue
      r1 == IF ~ok THEN missing ELSE r0
  IN IF ok /\ val # otherVal THEN DiffValue ELSE r1

\* first loop: over left (Diff, the text of cmp.Diff, is not modelled)
RECURSIVE DiffLeft(_, _, _, _, _)
DiffLeft(res, left, right, order, i) ==
  IF i > Len(order) THEN res
  ELSE LET key      == order[i]
           val      == left[key]
           ok       == key \in DOMAIN right
           otherVal == Lookup(right, key)
       IN IF ~ok \/ val # otherVal
          THEN DiffLeft(Put(res, key, [Left |-> val, Right |-> otherVal,
                                       Reason |-> DiffReasonOf(ok, val, otherVal, DiffMissingRight)]),
                        left, right, order, i + 1)
          ELSE DiffLeft(res, left, right, order, i + 1)

\* mutant: the second loop fills Left and Right as the first one does
RECURSIVE DiffRightUnswapped(_, _, _, _, _)
DiffRightUnswapped(res, left, right, order, i) ==
  IF i > Len(order) THEN res
  ELSE LET key      == order[i]
           val      == right[key]
           ok       == key \in DOMAIN left
           otherVal == Lookup(left, key)
       IN IF ~ok \/ val # otherVal
          THEN DiffRightUnswapped(Put(res, key, [Left |-> val, Right |-> otherVal,
                                        Reason |-> DiffReasonOf(ok, val, otherVal, DiffMissingLeft)]),
                         left, right, order, i + 1)
          ELSE DiffRightUnswapped(res, left, right, order, i + 1)

\* second loop: over right
RECURSIVE DiffRight(_, _, _, _, _)
DiffRight(res, left, right, order, i) ==
  IF i > Len(order) THEN res
  ELSE LET key      == order[i]
           val      == right[key]
           ok       == key \in DOMAIN left
           otherVal == Lookup(left, key)
       IN IF ~ok \/ val # otherVal
          THEN DiffRight(Put(res, key, [Left |-> otherVal, Right |-> val,
                                        Reason |-> DiffReasonOf(ok, val, otherVal, DiffMissingLeft)]),
                         left, right, order, i + 1)
          ELSE DiffRight(res, left, right, order, i + 1)

Diff(left, right, orderL, orderR) ==
  DiffRight(DiffLeft(EmptyMap, left, right, orderL, 1), left, right, orderR, 1)

\* ------------------------------------------------------------------ KeyDiff
\* mutant: the test of the lookup is inverted, the shared keys are collected
RECURSIVE KeyDiffLoopShared(_, _, _, _, _)
KeyDiffLoopShared(keys, a, b, order, i) ==
  IF i > Len(order) THEN keys
  ELSE IF order[i] \in DOMAIN b
       THEN KeyDiffLoopShared(Append(keys, order[i]), a, b, order, i + 1)
       ELSE KeyDiffLoopShared(keys, a, b, order, i + 1)

\* the keys of a, in the order visited, that b does not have
RECURSIVE KeyDiffLoop(_, _, _, _, _)
KeyDiffLoop(keys, a, b, order, i) ==
  IF i > Len(order) THEN keys
  ELSE IF order[i] \notin DOMAIN b
       THEN KeyDiffLoop(Append(keys, order[i]), a, b, order, i + 1)
       ELSE KeyDiffLoop(keys, a, b, order, i + 1)

KeyDiff(left, right, orderL, orderR) ==
  [leftKeys  |-> KeyDiffLoop(<<>>, left, right, orderL, 1),
   rightKeys |-> KeyDiffLoop(<<>>, right, left, orderR, 1)]

\* ------------------------------------------------------------------- state
NoOp ==
  [name |-> "none", fn |-> "none", srcs |-> <<>>, key |-> 0, val |-> 0,
   ret |-> Nil, pre |-> EmptyMap, calls |-> <<>>, panicked |-> FALSE, pred |-> {},
   mapper |-> <<>>]

\* the heap after the map at reference r became m
Store(h, r, m) == IF r = Nil THEN h ELSE [x \in Refs(h) \cup {r} |-> IF x = r THEN m ELSE h[x]]

\* --------------------------------------------- Spec: the maps of the heap
Init ==
  /\ \E n \in 0..MaxRefs : heap \in [1..n -> InputMaps]
  /\ op = NoOp
  /\ args = <<>>

\* the guard keeps the values of the heap within Values (Sum grows them)
DoMerge ==
  /\ HasRoom(heap)
  /\ \E fn \in Resolvers, n \in 0..MaxSrcs :
       \E srcs \in [1..n -> Args(heap)] :
         LET src == [i \in 1..n |-> Deref(heap, srcs[i])] IN
         \E orders \in OrderSeqs(src) :
           LET r == Merge(fn, src, orders)
               t == MergeTarget(heap, srcs)
           IN /\ \A k \in DOMAIN r.merged : r.merged[k] \in Values
              /\ heap' = Store(heap, t, r.merged)
              /\ op' = [NoOp EXCEPT !.name = "Merge", !.fn = fn, !.srcs = srcs, !.ret = t]
  /\ UNCHANGED args

DoSetIfPresent ==
  /\ \E m \in Args(heap), key \in Keys, val \in Values :
       LET r == SetIfPresent(Deref(heap, m), m = Nil, key, val) IN
       /\ heap' = Store(heap, m, r.m)
       /\ op' = [NoOp EXCEPT !.name = "SetIfPresent", !.srcs = <<m>>, !.key = key, !.val = val,
                             !.ret = r.ret, !.pre = Deref(heap, m), !.panicked = r.panicked]
  /\ UNCHANGED args

DoSetIfAbsent ==
  /\ \E m \in Args(heap), key \in Keys, val \in Values :
       LET r == SetIfAbsent(Deref(heap, m), m = Nil, key, val) IN
       /\ heap' = Store(heap, m, r.m)
       /\ op' = [NoOp EXCEPT !.name = "SetIfAbsent", !.srcs = <<m>>, !.key = key, !.val = val,
                             !.ret = r.ret, !.pre = Deref(heap, m), !.panicked = r.panicked]
  /\ UNCHANGED args

DoClear ==
  /\ \E m \in Args(heap) :
       \E order \in Orders(DOMAIN Deref(heap, m)) :
         /\ heap' = Store(heap, m, Clear(Deref(heap, m), order, 1))
         /\ op' = [NoOp EXCEPT !.name = "Clear", !.srcs = <<m>>, !.pre = Deref(heap, m)]
  /\ UNCHANGED args

DoClone ==
  /\ \E m \in Args(heap) :
       /\ m # Nil => HasRoom(heap)
       /\ \E order \in Orders(DOMAIN Deref(heap, m)) :
            LET t == CloneTarget(heap, m) IN
            /\ heap' = Store(heap, t, Clone(Deref(heap, m), order))
            /\ op' = [NoOp EXCEPT !.name = "Clone", !.srcs = <<m>>, !.ret = t]
  /\ UNCHANGED args

DoCopy ==
  /\ \E src \in Args(heap), dst \in Args(heap) :
       \E order \in Orders(DOMAIN Deref(heap, src)) :
         LET r == Copy(Deref(heap, src), Deref(heap, dst), dst = Nil, order, 1) IN
         /\ heap' = Store(heap, dst, r.dst)
         /\ op' = [NoOp EXCEPT !.name = "Copy", !.srcs = <<src, dst>>, !.pre = Deref(heap, dst),
                               !.panicked = r.panicked]
  /\ UNCHANGED args

DoFilter ==
  /\ HasRoom(heap)
  /\ \E m \in Args(heap), fn \in Predicates :
       \E order \in Orders(DOMAIN Deref(heap, m)) :
         LET t == FilterTarget(heap, m) IN
         /\ heap' = Store(heap, t, Filter(Deref(heap, m), fn, order))
         /\ op' = [NoOp EXCEPT !.name = "Filter", !.srcs = <<m>>, !.pred = fn, !.ret = t]
  /\ UNCHANGED args

DoGetOrDefault ==
  /\ \E m \in Args(heap), key \in Keys, defaultVal \in Values :
       /\ heap' = heap
       /\ op' = [NoOp EXCEPT !.name = "GetOrDefault", !.srcs = <<m>>, !.key = key,
                             !.val = defaultVal, !.pre = Deref(heap, m),
                             !.ret = GetOrDefault(Deref(heap, m), key, defaultVal)]
  /\ UNCHANGED args

DoGetOrPanic ==
  /\ \E m \in Args(heap), key \in Keys :
       LET r == GetOrPanic(Deref(heap, m), key) IN
       /\ heap' = heap
       /\ op' = [NoOp EXCEPT !.name = "GetOrPanic", !.srcs = <<m>>, !.key = key,
                             !.pre = Deref(heap, m), !.ret = r.ret, !.panicked = r.panicked]
  /\ UNCHANGED args

Next ==
  \/ DoMerge
  \/ DoSetIfPresent
  \/ DoSetIfAbsent
  \/ DoClear
  \/ DoClone
  \/ DoCopy
  \/ DoFilter
  \/ DoGetOrDefault
  \/ DoGetOrPanic

Spec == Init /\ [][Next]_vars

\* -------------------------------------- SpecFn: calls on drawn arguments
InitFn ==
  /\ heap = <<>>
  /\ op = NoOp
  /\ \E n \in 0..MaxSrcs : args \in [1..n -> InputMaps]

\* Merge(fn, args...)
CallMerge ==
  /\ \E fn \in Resolvers :
       \E orders \in OrderSeqs(args) :
         LET r == Merge(fn, args, orders) IN
         op' = [NoOp EXCEPT !.name = "Merge", !.fn = fn, !.ret = r.merged, !.calls = r.calls]
  /\ UNCHANGED <<heap, args>>

\* Equal(args[1], args[2])
CallEqual ==
  /\ Len(args) >= 2
  /\ \E order \in Orders(DOMAIN args[1]) :
       op' = [NoOp EXCEPT !.name = "Equal", !.ret = Equal(args[1], args[2], order)]
  /\ UNCHANGED <<heap, args>>

\* Diff(args[1], args[2])
CallDiff ==
  /\ Len(args) >= 2
  /\ \E orderL \in Orders(DOMAIN args[1]), orderR \in Orders(DOMAIN args[2]) :
       op' = [NoOp EXCEPT !.name = "Diff", !.ret = Diff(args[1], args[2], orderL, orderR)]
  /\ UNCHANGED <<heap, args>>

\* KeyDiff(args[1], args[2])
CallKeyDiff ==
  /\ Len(args) >= 2
  /\ \E orderL \in Orders(DOMAIN args[1]), orderR \in Orders(DOMAIN args[2]) :
       op' = [NoOp EXCEPT !.name = "KeyDiff", !.ret = KeyDiff(args[1], args[2], orderL, orderR)]
  /\ UNCHANGED <<heap, args>>

\* MapEntries(args[1], mapper), called with one map
CallMapEntries ==
  /\ Len(args) = 1
  /\ \E mapper \in EntryMappers, order \in Orders(DOMAIN args[1]) :
       op' = [NoOp EXCEPT !.name = "MapEntries", !.mapper = mapper,
                          !.ret = MapEntries(args[1], mapper, order)]
  /\ UNCHANGED <<heap, args>>

\* Invert(args[1]), called with one map
CallInvert ==
  /\ Len(args) = 1
  /\ \E order \in Orders(DOMAIN args[1]) :
       op' = [NoOp EXCEPT !.name = "Invert", !.ret = Invert(args[1], order)]
  /\ UNCHANGED <<heap, args>>

NextFn ==
  \/ CallMerge
  \/ CallEqual
  \/ CallDiff
  \/ CallKeyDiff
  \/ CallMapEntries
  \/ CallInvert

SpecFn == InitFn /\ [][NextFn]_vars

\* =================================================================== claims
\* the values of key k in the sources that hold it, in argument order
RECURSIVE ValuesOf(_, _)
ValuesOf(src, k) ==
  IF src = <<>> THEN <<>>
  ELSE IF k \in DOMAIN Head(src) THEN <<Head(src)[k]>> \o ValuesOf(Tail(src), k)
       ELSE ValuesOf(Tail(src), k)

\* the left-to-right fold of a resolver over a non-empty sequence of values
RECURSIVE FoldLeft(_, _)
FoldLeft(fn, vals) ==
  IF Len(vals) = 1 THEN vals[1]
  ELSE Resolve(fn, FoldLeft(fn, SubSeq(vals, 1, Len(vals) - 1)), vals[Len(vals)])

KeysOfAll(src) == UNION {DOMAIN src[i] : i \in DOMAIN src}

\* the results Merge can return, over every iteration order
MergeResults(fn, src) == {Merge(fn, src, o).merged : o \in OrderSeqs(src)}

\* C1: Merge(R, m1..mN) has the union of the sources' keys, and the value of
\* each key is the left-to-right fold of R over that key's values in argument
\* order; Merge(sum, {a:1,b:2}, {a:10}) = {a:11, b:2}.
C1_MergeIsLeftFold ==
  /\ op.name = "Merge" =>
       /\ DOMAIN op.ret = KeysOfAll(args)
       /\ \A k \in DOMAIN op.ret : op.ret[k] = FoldLeft(op.fn, ValuesOf(args, k))
  /\ MergeResults("Sum", <<(1 :> 1) @@ (2 :> 2), (1 :> 10)>>) = {(1 :> 11) @@ (2 :> 2)}

\* a key held by three sources and folded by the non-associative resolver,
\* next to a key held by one source only
C1_Witness ==
  /\ op.name = "Merge" /\ op.fn = "Sub" /\ Len(args) = 3
  /\ \E k \in Keys : /\ \A i \in 1..3 : k \in DOMAIN args[i]
                     /\ args[1][k] = 0 /\ args[2][k] = 1 /\ args[3][k] = 1
                     /\ op.ret[k] = 0 - 2
  /\ \E k \in Keys : Len(ValuesOf(args, k)) = 1

\* the resolver's invocations for key k
CallsFor(calls, k) == Len(SelectSeq(calls, LAMBDA c : c.key = k))

PairwiseDisjoint(src) ==
  \A i, j \in DOMAIN src : i # j => DOMAIN src[i] \cap DOMAIN src[j] = {}

\* C2: Merge invokes the resolver once for every occurrence of a key after its
\* first and never for a first occurrence; with disjoint sources, one source or
\* no source it is never invoked and the result is the union of the entries.
C2_ResolverOnlyOnCollision ==
  op.name = "Merge" =>
    /\ \A k \in Keys :
         CallsFor(op.calls, k) =
           IF k \in KeysOfAll(args) THEN Len(ValuesOf(args, k)) - 1 ELSE 0
    /\ \A c \in DOMAIN op.calls : op.calls[c].key \in Keys
    /\ PairwiseDisjoint(args) =>
         /\ op.calls = <<>>
         /\ DOMAIN op.ret = KeysOfAll(args)
         /\ \A i \in DOMAIN args : \A k \in DOMAIN args[i] : op.ret[k] = args[i][k]
    /\ Len(args) = 1 => op.calls = <<>> /\ op.ret = args[1]
    /\ Len(args) = 0 => op.calls = <<>> /\ op.ret = EmptyMap

\* one key collides twice, the other key occurs once
C2_Witness ==
  /\ op.name = "Merge" /\ Len(args) = 3
  /\ \E k1, k2 \in Keys :
       /\ Len(ValuesOf(args, k1)) = 3 /\ CallsFor(op.calls, k1) = 2
       /\ Len(ValuesOf(args, k2)) = 1 /\ CallsFor(op.calls, k2) = 0

FirstWith(src, k) == CHOOSE i \in DOMAIN src : k \in DOMAIN src[i] /\ \A j \in 1..(i - 1) : k \notin DOMAIN src[j]

LastWith(src, k) == CHOOSE i \in DOMAIN src : k \in DOMAIN src[i] /\ \A j \in (i + 1)..Len(src) : k \notin DOMAIN src[j]

\* C3: under OverwriteResolver a key gets the value of the last source that
\* holds it, under NopResolver the value of the first.
C3_OverwriteLastNopFirst ==
  op.name = "Merge" =>
    /\ op.fn = "Overwrite" => \A k \in KeysOfAll(args) : op.ret[k] = args[LastWith(args, k)][k]
    /\ op.fn = "Nop" => \A k \in KeysOfAll(args) : op.ret[k] = args[FirstWith(args, k)][k]

\* two sources share a key with different values and overwrite kept the right one
C3_Witness ==
  /\ op.name = "Merge" /\ op.fn = "Overwrite" /\ Len(args) = 2
  /\ \E k \in DOMAIN args[1] \cap DOMAIN args[2] :
       args[1][k] # args[2][k] /\ op.ret[k] = args[2][k]

\* Merge(fn, Merge(fn, a, b), c), over every iteration order
MergeLeftNested(fn, a, b, c) ==
  UNION {MergeResults(fn, <<ab, c>>) : ab \in MergeResults(fn, <<a, b>>)}

\* Merge(fn, a, Merge(fn, b, c)), over every iteration order
MergeRightNested(fn, a, b, c) ==
  UNION {MergeResults(fn, <<a, bc>>) : bc \in MergeResults(fn, <<b, c>>)}

\* C4: for overwrite, nop and sum, Merge(R, Merge(R, A, B), C),
\* Merge(R, A, Merge(R, B, C)) and Merge(R, A, B, C) are equal; swapping two
\* sources keeps the key set and the values of the keys they do not share, and
\* with sum it keeps the whole result.
C4_MergeAssociative ==
  /\ (op.name = "Merge" /\ op.fn \in {"Overwrite", "Nop", "Sum"} /\ Len(args) = 3) =>
       /\ MergeLeftNested(op.fn, args[1], args[2], args[3]) = {op.ret}
       /\ MergeRightNested(op.fn, args[1], args[2], args[3]) = {op.ret}
  /\ (op.name = "Merge" /\ Len(args) = 2) =>
       \A swapped \in MergeResults(op.fn, <<args[2], args[1]>>) :
         /\ DOMAIN swapped = DOMAIN op.ret
         /\ \A k \in DOMAIN op.ret \ (DOMAIN args[1] \cap DOMAIN args[2]) : swapped[k] = op.ret[k]
         /\ op.fn = "Sum" => swapped = op.ret

\* three sources that all hold one key, with values the resolvers tell apart
C4_Witness ==
  /\ op.name = "Merge" /\ op.fn = "Sum" /\ Len(args) = 3
  /\ \E k \in Keys : Len(ValuesOf(args, k)) = 3 /\ op.ret[k] = 2
  /\ DOMAIN args[1] # DOMAIN args[3]

\* the elements of a sequence
ElemsOf(seq) == {seq[i] : i \in DOMAIN seq}

\* C6: Diff(A, B) has an entry for k with reason ValueMismatch iff k is in both
\* with different values, MissingInRight iff k is only in A, MissingInLeft iff k
\* is only in B, and no entry otherwise; Left and Right are the values of k in A
\* and B, or the zero value where k is missing; the size is the number of such
\* keys, whatever the iteration order.
C6_DiffClassifiesEveryKey ==
  op.name = "Diff" =>
    LET A == args[1]
        B == args[2]
        differing == {k \in Keys : \/ k \in DOMAIN A /\ k \notin DOMAIN B
                                   \/ k \in DOMAIN B /\ k \notin DOMAIN A
                                   \/ k \in DOMAIN A /\ k \in DOMAIN B /\ A[k] # B[k]}
    IN /\ DOMAIN op.ret = differing
       /\ Size(op.ret) = Cardinality(differing)
       /\ \A k \in DOMAIN op.ret :
            /\ op.ret[k].Reason = DiffValue <=> (k \in DOMAIN A /\ k \in DOMAIN B /\ A[k] # B[k])
            /\ op.ret[k].Reason = DiffMissingRight <=> (k \in DOMAIN A /\ k \notin DOMAIN B)
            /\ op.ret[k].Reason = DiffMissingLeft <=> (k \in DOMAIN B /\ k \notin DOMAIN A)
            /\ op.ret[k].Left = (IF k \in DOMAIN A THEN A[k] ELSE Zero)
            /\ op.ret[k].Right = (IF k \in DOMAIN B THEN B[k] ELSE Zero)

\* one key differs in value and the other is on one side only, with a non-zero value
C6_Witness ==
  /\ op.name = "Diff"
  /\ \E k1, k2 \in DOMAIN op.ret :
       /\ op.ret[k1].Reason = DiffValue
       /\ op.ret[k2].Reason # DiffValue
       /\ op.ret[k2].Left + op.ret[k2].Right # Zero

\* C7: KeyDiff(A, B) returns the keys of A that B lacks and the keys of B that A
\* lacks, each once; a key of both is in neither list, whatever its values.
C7_KeyDiffOneSidedKeys ==
  op.name = "KeyDiff" =>
    LET A == args[1]
        B == args[2]
        l == op.ret.leftKeys
        r == op.ret.rightKeys
    IN /\ ElemsOf(l) = DOMAIN A \ DOMAIN B
       /\ ElemsOf(r) = DOMAIN B \ DOMAIN A
       /\ Len(l) = Cardinality(ElemsOf(l))
       /\ Len(r) = Cardinality(ElemsOf(r))
       /\ ElemsOf(l) \cap DOMAIN B = {}
       /\ ElemsOf(r) \cap DOMAIN A = {}
       /\ ElemsOf(l) \cap ElemsOf(r) = {}
       /\ \A k \in DOMAIN A \cap DOMAIN B : k \notin ElemsOf(l) \cup ElemsOf(r)

\* a shared key with different values next to a key of the left map only
C7_Witness ==
  /\ op.name = "KeyDiff"
  /\ \E k \in DOMAIN args[1] \cap DOMAIN args[2] : args[1][k] # args[2][k]
  /\ Len(op.ret.leftKeys) = 1
  /\ op.ret.rightKeys = <<>>

\* C8: Equal(m1, m2) is true iff the maps have the same size and every key of
\* m1 is a key of m2 with an equal value, that is iff they hold the same
\* entries; it is symmetric, and maps of one size with different keys differ.
C8_EqualIsSameEntries ==
  op.name = "Equal" =>
    LET m1 == args[1]
        m2 == args[2]
    IN /\ op.ret = (/\ Size(m1) = Size(m2)
                    /\ \A k \in DOMAIN m1 : k \in DOMAIN m2 /\ m1[k] = m2[k])
       /\ op.ret = (m1 = m2)
       /\ \A order \in Orders(DOMAIN m2) : Equal(m2, m1, order) = op.ret
       /\ (Size(m1) = Size(m2) /\ DOMAIN m1 # DOMAIN m2) => op.ret = FALSE

\* two maps of one size with different key sets
C8_Witness ==
  /\ op.name = "Equal"
  /\ Size(args[1]) = Size(args[2])
  /\ DOMAIN args[1] # DOMAIN args[2]
  /\ op.ret = FALSE

\* the functions that write to a map of the caller, and the map they write to
IsMutator(o) == o.name \in {"SetIfPresent", "SetIfAbsent", "Clear", "Copy"}

TargetOf(o) == IF o.name = "Copy" THEN o.srcs[2] ELSE o.srcs[1]

\* the maps of the heap other than `except` hold after the step what they held before
OthersUnchanged(except) ==
  \A r \in Refs(heap) \ except : r \in Refs(heap') /\ heap'[r] = heap[r]

\* C5: Merge returns a new map and leaves every source as it was, also a
\* source passed twice; a later SetIfPresent, SetIfAbsent, Clear or Copy into
\* the result leaves every source unchanged.
C5_MergeFrame ==
  [][/\ op'.name = "Merge" =>
          /\ op'.ret # Nil
          /\ op'.ret \notin Refs(heap)
          /\ \A i \in DOMAIN op'.srcs : op'.ret # op'.srcs[i]
          /\ OthersUnchanged({})
     /\ (op.name = "Merge" /\ IsMutator(op') /\ TargetOf(op') = op.ret) =>
          /\ \A i \in DOMAIN op.srcs :
               op.srcs[i] # Nil => heap'[op.srcs[i]] = heap[op.srcs[i]]
          /\ OthersUnchanged({op.ret})
    ]_vars

\* Merge of one map passed twice and of another map, none of them nil
C5_Witness ==
  /\ op.name = "Merge" /\ Len(op.srcs) = 3
  /\ op.srcs[1] = op.srcs[3] /\ op.srcs[1] # op.srcs[2]
  /\ op.srcs[1] # Nil /\ op.srcs[2] # Nil
  /\ heap[op.srcs[1]] # EmptyMap /\ heap[op.srcs[2]] # EmptyMap
  /\ heap[op.ret] # heap[op.srcs[1]]

\* C9: Clone(nil) is nil; Clone(M) of any other map is a new, non-nil map with
\* the entries of M, so Equal(M, Clone(M)); writing to the clone leaves M
\* unchanged and writing to M leaves the clone unchanged.
C9_CloneFrame ==
  [][/\ op'.name = "Clone" =>
          LET m == op'.srcs[1]
              t == op'.ret
          IN /\ m = Nil => t = Nil /\ heap' = heap
             /\ m # Nil => /\ t # Nil /\ t # m /\ t \notin Refs(heap)
                           /\ heap'[t] = heap[m]
                           /\ OthersUnchanged({})
             /\ \A o1 \in Orders(DOMAIN Deref(heap', m)) :
                  Equal(Deref(heap', m), Deref(heap', t), o1)
     /\ (op.name = "Clone" /\ op.ret # Nil /\ IsMutator(op')) =>
          /\ TargetOf(op') = op.ret => heap'[op.srcs[1]] = heap[op.srcs[1]]
          /\ TargetOf(op') = op.srcs[1] => heap'[op.ret] = heap[op.ret]
    ]_vars

\* the clone of a map with entries
C9_Witness ==
  /\ op.name = "Clone"
  /\ op.srcs[1] # Nil /\ op.ret # Nil /\ op.ret # op.srcs[1]
  /\ Size(heap[op.ret]) = MaxKey

\* C10: after Copy(src, dst) dst holds every entry of src, its other keys keep
\* their values, it has no key from elsewhere, and src holds what it held.
C10_CopyPostcondition ==
  [][(op'.name = "Copy" /\ ~op'.panicked) =>
       LET src  == Deref(heap, op'.srcs[1])
           dst  == Deref(heap, op'.srcs[2])
           src2 == Deref(heap', op'.srcs[1])
           dst2 == Deref(heap', op'.srcs[2])
       IN /\ \A k \in DOMAIN src : k \in DOMAIN dst2 /\ dst2[k] = src[k]
          /\ \A k \in DOMAIN dst \ DOMAIN src : k \in DOMAIN dst2 /\ dst2[k] = dst[k]
          /\ DOMAIN dst2 = DOMAIN src \cup DOMAIN dst
          /\ src2 = src
          /\ op'.pre = dst
    ]_vars

\* a key of dst was overwritten with another value and another key of dst was kept
C10_Witness ==
  /\ op.name = "Copy" /\ ~op.panicked
  /\ op.srcs[1] # Nil /\ op.srcs[2] # Nil /\ op.srcs[1] # op.srcs[2]
  /\ \E k \in DOMAIN op.pre \cap DOMAIN heap[op.srcs[1]] :
       op.pre[k] # heap[op.srcs[1]][k] /\ heap[op.srcs[2]][k] = heap[op.srcs[1]][k]
  /\ \E k \in DOMAIN op.pre \ DOMAIN heap[op.srcs[1]] : heap[op.srcs[2]][k] = op.pre[k]

\* what SetIfPresent and SetIfAbsent are to do on the map `pre`, leaving `post`
SetIfPresentContract(o, pre, post) ==
  /\ o.key \in DOMAIN pre => ~o.panicked /\ o.ret = TRUE /\ post = Put(pre, o.key, o.val)
  /\ o.key \notin DOMAIN pre => ~o.panicked /\ o.ret = FALSE /\ post = pre
  /\ DOMAIN post = DOMAIN pre

SetIfAbsentContract(o, pre, post) ==
  /\ o.key \notin DOMAIN pre => ~o.panicked /\ o.ret = TRUE /\ post = Put(pre, o.key, o.val)
  /\ o.key \in DOMAIN pre => ~o.panicked /\ o.ret = FALSE /\ post = pre
  /\ \A k \in DOMAIN pre : post[k] = pre[k]

\* C11 as stated: on every map SetIfPresent returns true and sets m[k] = v iff
\* k was a key, SetIfAbsent returns true and inserts k iff k was not a key, and
\* otherwise each returns false and leaves m unchanged.
C11_SetIfOnEveryMap ==
  [][/\ op'.name = "SetIfPresent" =>
          SetIfPresentContract(op', Deref(heap, op'.srcs[1]), Deref(heap', op'.srcs[1]))
     /\ op'.name = "SetIfAbsent" =>
          SetIfAbsentContract(op', Deref(heap, op'.srcs[1]), Deref(heap', op'.srcs[1]))
    ]_vars

\* C11 amended: the statement holds on every non-nil map, where the returned
\* boolean says whether a write happened and no key other than k changes; on a
\* nil map SetIfPresent returns false and SetIfAbsent panics, writing nothing.
C11_SetIfOnNonNilMap ==
  [][/\ (op'.name = "SetIfPresent" /\ op'.srcs[1] # Nil) =>
          SetIfPresentContract(op', heap[op'.srcs[1]], heap'[op'.srcs[1]])
     /\ (op'.name = "SetIfAbsent" /\ op'.srcs[1] # Nil) =>
          /\ SetIfAbsentContract(op', heap[op'.srcs[1]], heap'[op'.srcs[1]])
          /\ op'.ret = (heap'[op'.srcs[1]] # heap[op'.srcs[1]])
     /\ (op'.name \in {"SetIfPresent", "SetIfAbsent"}) =>
          /\ op'.pre = Deref(heap, op'.srcs[1])
          /\ \A k \in DOMAIN op'.pre \ {op'.key} :
               Deref(heap', op'.srcs[1])[k] = op'.pre[k]
          /\ DOMAIN Deref(heap', op'.srcs[1]) \subseteq DOMAIN op'.pre \cup {op'.key}
          /\ OthersUnchanged({op'.srcs[1]})
     /\ (op'.name = "SetIfPresent" /\ op'.srcs[1] = Nil) =>
          ~op'.panicked /\ op'.ret = FALSE /\ heap' = heap
     /\ (op'.name = "SetIfAbsent" /\ op'.srcs[1] = Nil) =>
          op'.panicked /\ heap' = heap
    ]_vars

\* SetIfAbsent inserted a key into a map that held another key
C11_Witness ==
  /\ op.name = "SetIfAbsent" /\ op.srcs[1] # Nil /\ op.ret = TRUE
  /\ op.key \notin DOMAIN op.pre /\ op.pre # EmptyMap
  /\ heap[op.srcs[1]] = Put(op.pre, op.key, op.val)

\* C12: after Clear(m) the map has no entries, whatever it held, and is the
\* same instance: no map is allocated, every other map is unchanged, a non-nil
\* m takes writes again (SetIfAbsent, Copy), and SetIfPresent returns false and
\* GetOrDefault the fallback for every key.
C12_ClearEmptiesInPlace ==
  [][/\ op'.name = "Clear" =>
          LET m    == op'.srcs[1]
              post == Deref(heap', m)
          IN /\ ~op'.panicked
             /\ op'.pre = Deref(heap, m)
             /\ Size(post) = 0
             /\ Refs(heap') = Refs(heap)
             /\ OthersUnchanged({m})
             /\ \A k \in Keys, v \in Values :
                  /\ SetIfPresent(post, m = Nil, k, v).ret = FALSE
                  /\ GetOrDefault(post, k, v) = v
                  /\ m # Nil => SetIfAbsent(post, FALSE, k, v) =
                                  [m |-> Put(EmptyMap, k, v), ret |-> TRUE, panicked |-> FALSE]
             /\ m # Nil => \A r \in Refs(heap') :
                  \A o1 \in Orders(DOMAIN heap'[r]) :
                    Copy(heap'[r], post, FALSE, o1, 1) = [dst |-> heap'[r], panicked |-> FALSE]
     /\ (op.name = "Clear" /\ op.srcs[1] # Nil /\ op'.srcs = op.srcs) =>
          /\ op'.name = "SetIfAbsent" => op'.ret = TRUE /\ ~op'.panicked
                                         /\ heap'[op.srcs[1]] = Put(EmptyMap, op'.key, op'.val)
          /\ op'.name = "SetIfPresent" => op'.ret = FALSE /\ heap' = heap
          /\ op'.name = "GetOrDefault" => op'.ret = op'.val
    ]_vars

\* a map that held as many entries as there are keys was cleared
C12_Witness ==
  /\ op.name = "Clear" /\ op.srcs[1] # Nil
  /\ Size(op.pre) = MaxKey
  /\ heap[op.srcs[1]] = EmptyMap
  /\ \E r \in Refs(heap) : heap[r] # EmptyMap

\* C13: Filter(M, p) returns a map that was not allocated before and is never
\* nil; it holds exactly the entries of M that satisfy p (each of its entries is
\* one of M satisfying p, each entry of M it lacks fails p); M and every other
\* map are unchanged; when nothing satisfies p, or M is nil or empty, the
\* result is an allocated empty map.
C13_FilterExactEntries ==
  [][/\ op'.name = "Filter" =>
          LET m   == op'.srcs[1]
              M   == Deref(heap, m)
              t   == op'.ret
              p   == op'.pred
          IN /\ t # Nil /\ t # m /\ t \notin Refs(heap) /\ t \in Refs(heap')
             /\ \A k \in DOMAIN heap'[t] :
                  k \in DOMAIN M /\ heap'[t][k] = M[k] /\ Satisfies(p, k, M[k])
             /\ \A k \in DOMAIN M \ DOMAIN heap'[t] : ~Satisfies(p, k, M[k])
             /\ heap'[t] = [k \in {x \in DOMAIN M : <<x, M[x]>> \in p} |-> M[k]]
             /\ OthersUnchanged({})
             /\ Deref(heap', m) = M
             /\ (m = Nil \/ M = EmptyMap \/ \A k \in DOMAIN M : <<k, M[k]>> \notin p)
                  => heap'[t] = EmptyMap
     /\ (op.name = "Filter" /\ IsMutator(op')) =>
          /\ TargetOf(op') = op.ret => OthersUnchanged({op.ret})
          /\ TargetOf(op') = op.srcs[1] => heap'[op.ret] = heap[op.ret]
    ]_vars

\* a filter kept one entry of a full map and dropped another
C13_Witness ==
  /\ op.name = "Filter" /\ op.srcs[1] # Nil
  /\ Size(heap[op.srcs[1]]) = MaxKey
  /\ Size(heap[op.ret]) = 1
  /\ \E k \in DOMAIN heap[op.srcs[1]] : <<k, heap[op.srcs[1]][k]>> \notin op.pred

\* C14: GetOrPanic(m, k) returns m[k] when k is a key of m, the zero value
\* included, and panics iff k is not a key; GetOrDefault(m, k, d) never panics
\* and returns m[k] when k is a key and d otherwise; neither changes any map.
C14_LookupContract ==
  [][/\ op'.name = "GetOrPanic" =>
          LET M == Deref(heap, op'.srcs[1]) IN
          /\ op'.panicked <=> op'.key \notin DOMAIN M
          /\ op'.key \in DOMAIN M => op'.ret = M[op'.key]
          /\ heap' = heap
     /\ op'.name = "GetOrDefault" =>
          LET M == Deref(heap, op'.srcs[1]) IN
          /\ ~op'.panicked
          /\ op'.key \in DOMAIN M => op'.ret = M[op'.key]
          /\ op'.key \notin DOMAIN M => op'.ret = op'.val
          /\ heap' = heap
    ]_vars

\* GetOrPanic returned a stored zero value
C14_Witness ==
  /\ op.name = "GetOrPanic" /\ ~op.panicked
  /\ op.srcs[1] # Nil
  /\ op.key \in DOMAIN heap[op.srcs[1]]
  /\ heap[op.srcs[1]][op.key] = Zero /\ op.ret = Zero

\* the call did not return: it panicked
Panics(o) == o.panicked

\* C15 as stated: only the read-only lookup GetOrPanic panics; SetIfPresent,
\* SetIfAbsent, Clear and Copy never do, on a nil map either, and a panicking
\* call has changed no map.
C15_OnlyLookupsPanic ==
  [][/\ Panics(op') => op'.name = "GetOrPanic"
     /\ IsMutator(op') => ~Panics(op')
     /\ Panics(op') => heap' = heap
    ]_vars

\* C15, amended: the calls that panic are GetOrPanic on a missing key,
\* SetIfAbsent on a nil map and Copy of a non-empty src into a nil dst, and no
\* others; SetIfPresent and Clear never panic, on a nil map either; a panicking
\* call has changed no map (Copy has written no part of src), and a call that
\* returns has done all of its work.
C15_PanicsBeforeAnyWrite ==
  [][/\ Panics(op') => op'.name \in {"GetOrPanic", "SetIfAbsent", "Copy"}
     /\ Panics(op') => heap' = heap
     /\ op'.name \in {"SetIfPresent", "Clear"} => ~Panics(op')
     /\ op'.name = "SetIfAbsent" => (Panics(op') <=> op'.srcs[1] = Nil)
     /\ op'.name = "Copy" =>
          (Panics(op') <=> op'.srcs[2] = Nil /\ Deref(heap, op'.srcs[1]) # EmptyMap)
     /\ op'.name = "GetOrPanic" =>
          (Panics(op') <=> op'.key \notin DOMAIN Deref(heap, op'.srcs[1]))
     /\ (op'.name = "Copy" /\ ~Panics(op')) =>
          \A k \in DOMAIN Deref(heap, op'.srcs[1]) :
            /\ k \in DOMAIN Deref(heap', op'.srcs[2])
            /\ Deref(heap', op'.srcs[2])[k] = Deref(heap, op'.srcs[1])[k]
     /\ (op'.name = "Clear" /\ ~Panics(op')) => Deref(heap', op'.srcs[1]) = EmptyMap
     /\ (op'.name = "SetIfAbsent" /\ ~Panics(op')) => op'.key \in DOMAIN heap'[op'.srcs[1]]
    ]_vars

\* Copy of a full map into a nil dst panicked
C15_Witness ==
  /\ op.name = "Copy" /\ Panics(op)
  /\ op.srcs[2] = Nil /\ op.srcs[1] # Nil
  /\ Size(heap[op.srcs[1]]) = MaxKey

\* the values a map holds
Range(m) == {m[k] : k \in DOMAIN m}

\* the maps over `keys` that give each key one of the entries `picks` offers it
Selections(keys, picks(_)) ==
  {f \in UNION {[keys -> S] : S \in SUBSET UNION {picks(k) : k \in keys}} :
     \A k \in keys : f[k] \in picks(k)}

\* C16: the keys of Invert(M) are exactly the values of M and each value v is
\* mapped to a key k with M[k] = v; among keys sharing v any one can win; with
\* pairwise distinct values Invert(M) is the inverse and has the size of M.
\* The keys of MapEntries(M, f) are exactly the output keys of f over M's
\* entries, each mapped to the output value of an entry producing that key; the
\* result has the size of M iff the output keys are distinct.
C16_InvertAndMapEntries ==
  /\ op.name = "Invert" =>
       LET M == args[1]
           R == op.ret
           KeysWith(v) == {k \in DOMAIN M : M[k] = v}
       IN /\ DOMAIN R = Range(M)
          /\ \A v \in DOMAIN R : R[v] \in DOMAIN M /\ M[R[v]] = v
          /\ {Invert(M, o) : o \in Orders(DOMAIN M)} = Selections(Range(M), KeysWith)
          /\ (\A k1, k2 \in DOMAIN M : k1 # k2 => M[k1] # M[k2]) =>
               /\ Size(R) = Size(M)
               /\ \A k \in DOMAIN M : R[M[k]] = k
  /\ op.name = "MapEntries" =>
       LET M == args[1]
           R == op.ret
           Out(k) == op.mapper[<<k, M[k]>>]
           OutKeys == {Out(k)[1] : k \in DOMAIN M}
           ValuesFor(k2) == {Out(k)[2] : k \in {x \in DOMAIN M : Out(x)[1] = k2}}
       IN /\ DOMAIN R = OutKeys
          /\ \A k2 \in DOMAIN R : \E k \in DOMAIN M : Out(k) = <<k2, R[k2]>>
          /\ {MapEntries(M, op.mapper, o) : o \in Orders(DOMAIN M)}
               = Selections(OutKeys, ValuesFor)
          /\ Size(R) = Size(M) <=>
               \A k1, k2 \in DOMAIN M : k1 # k2 => Out(k1)[1] # Out(k2)[1]

\* two keys share a value and the first of them won
C16_Witness ==
  /\ op.name = "Invert"
  /\ Size(args[1]) = MaxKey /\ Size(op.ret) = 1
  /\ \A k \in DOMAIN args[1] : op.ret[args[1][k]] = 1

\* how often the resolver was invoked with the argument pair <<left, right>>
Invocations(calls, left, right) ==
  Cardinality({i \in DOMAIN calls : calls[i].left = left /\ calls[i].right = right})

\* the number of keys that the sources from the j-th on share with a source
\* before them
RECURSIVE Collisions(_, _)
Collisions(src, j) ==
  IF j > Len(src) THEN 0
  ELSE Cardinality(DOMAIN src[j] \cap UNION {DOMAIN src[i] : i \in 1..(j - 1)})
       + Collisions(src, j + 1)

\* the values a resolver can be handed: sums and differences of MaxSrcs values
ResolverArgs == (0 - MaxSrcs * MaxVal)..(MaxSrcs * MaxVal)

\* C17: for a fixed resolver and argument list, every choice of iteration
\* order within the sources gives the same merged map and the same multiset of
\* resolver invocations (argument pairs) as the call that was made; the number
\* of invocations is that of the keys a source shares with the sources before
\* it, so none is made between two entries of one source.
C17_MergeOrderIndependent ==
  op.name = "Merge" =>
    /\ \A orders \in OrderSeqs(args) :
         LET r == Merge(op.fn, args, orders) IN
         /\ r.merged = op.ret
         /\ Len(r.calls) = Len(op.calls)
         /\ \A left, right \in ResolverArgs :
              Invocations(r.calls, left, right) = Invocations(op.calls, left, right)
    /\ \A c \in ElemsOf(op.calls) : c.left \in ResolverArgs /\ c.right \in ResolverArgs
    /\ Len(op.calls) = Collisions(args, 1)
    /\ Len(args) = 1 => op.calls = <<>> /\ op.ret = args[1]

\* sources with two keys each, both resolved, under a resolver that is not
\* commutative, and more than one iteration order to choose from
C17_Witness ==
  /\ op.name = "Merge" /\ op.fn = "Sub"
  /\ Len(args) = MaxSrcs
  /\ \A j \in 1..Len(args) : Size(args[j]) = MaxKey
  /\ Len(op.calls) = (MaxSrcs - 1) * MaxKey
  /\ \E c1, c2 \in ElemsOf(op.calls) : <<c1.left, c1.right>> # <<c2.left, c2.right>>

\* the reason of the same entry seen from the other side
MirrorReason(reason) ==
  IF reason = DiffMissingLeft THEN DiffMissingRight
  ELSE IF reason = DiffMissingRight THEN DiffMissingLeft
  ELSE reason

\* C18: Diff(A, B) is empty iff Equal(A, B) is true; Diff(A, A) and
\* Diff(A, Clone(A)) are empty; Diff(B, A) has the keys of Diff(A, B), and each
\* of its entries has Left and Right swapped and MissingInLeft and
\* MissingInRight exchanged.
C18_DiffAgreesWithEqual ==
  op.name = "Diff" =>
    LET A == args[1]
        B == args[2]
        D == op.ret
    IN /\ \A o \in Orders(DOMAIN A) : (D = EmptyMap) <=> Equal(A, B, o)
       /\ \A o \in Orders(DOMAIN B) : (D = EmptyMap) <=> Equal(B, A, o)
       /\ \A oL, oR, o \in Orders(DOMAIN A) :
            /\ Diff(A, A, oL, oR) = EmptyMap
            /\ Diff(A, Clone(A, o), oL, oR) = EmptyMap
            /\ Diff(Clone(A, o), A, oL, oR) = EmptyMap
       /\ \A oL \in Orders(DOMAIN B), oR \in Orders(DOMAIN A) :
            LET E == Diff(B, A, oL, oR) IN
            /\ DOMAIN E = DOMAIN D
            /\ \A k \in DOMAIN D :
                 E[k] = [Left |-> D[k].Right, Right |-> D[k].Left,
                         Reason |-> MirrorReason(D[k].Reason)]

\* a difference with a key missing on the left and a key whose non-zero values
\* differ
C18_Witness ==
  /\ op.name = "Diff"
  /\ Size(op.ret) = MaxKey
  /\ \E k \in DOMAIN op.ret : op.ret[k].Reason = DiffMissingLeft /\ op.ret[k].Right # Zero
  /\ \E k \in DOMAIN op.ret : op.ret[k].Reason = DiffValue

====
